---- MODULE Spec2Model ----
(***************************************************************************)
(* Real-time process monitoring dashboard: the socket.io server of         *)
(* src/server.js (cache, per-viewer interval, explicit requests, kill      *)
(* pipeline) and the kill round trip of the client hook                    *)
(* src/client/src/hooks/useSocket.ts.                                      *)
(*                                                                         *)
(* Node runs one event loop: every handler runs from its start, or from    *)
(* the completion of the call it awaits, to its next await without         *)
(* interleaving.  Each such run is one action.                             *)
(*                                                                         *)
(* Numbers: CPU loads of the collector are in hundredths of a percent,     *)
(* the strings produced by toFixed(1) are in tenths (42.7 is 427), times   *)
(* are milliseconds, memory sizes are in millions of bytes.                *)
(***************************************************************************)
EXTENDS Integers, Sequences, FiniteSets, TLC

VARIABLES
    platform,               \* process.platform, fixed for a run
    sample,                 \* what the collectors and tasklist return, fixed for a run
    intervals,              \* index.ts: when the two intervals of each socket are due
    now,                    \* Date.now()
    alive,                  \* the pids of the operating system's process table
    processListCache,       \* server.js:57
    systemInfoCache,        \* server.js:58
    lastProcessListUpdate,  \* server.js:59
    lastSystemInfoUpdate,   \* server.js:60
    status,                 \* per socket: "new", "connected", "closed"
    timer,                  \* per socket: due time of updateInterval, 0 = none
    tasks,                  \* the handler invocations that are suspended on a call
    requests,               \* the handler invocations started so far
    out,                    \* the events the last step emitted, and to which socket
    settled,                \* the external call that settled in the last step
    cl                      \* the state of one useSocket hook (client side)

vars == <<platform, sample, intervals, now, alive, processListCache, systemInfoCache,
          lastProcessListUpdate, lastSystemInfoUpdate, status, timer, tasks,
          requests, out, settled, cl>>

-----------------------------------------------------------------------------
(* Bounds of the model *)

MaxCalls == 3       \* handler invocations that await a call, in one run
MaxTicks == 1       \* clock steps in one run
MaxKills == 2       \* calls of the client's killProcess in one run
MaxClientTicks == 3    \* clock steps of the client in one run
MaxLateTicks == 2    \* clock steps in one run of the timestamp specification
MaxSamples == 3     \* systemInfo props given to the SystemInfo component

(* Program constants *)

PROCESS_LIST_INTERVAL == 30000
SYSTEM_INFO_INTERVAL == 10000
TimerPeriod == 5000
TopN == 50
MaxCores == 4
KillTimeout == 10000
DataTimeout == 5000
HistoryLength == 30
ClearDelay == 3000

\* The sockets that may connect in one run, numbered in the order in which
\* they connect.
Viewers == {1, 2}

\* The clock moves in steps of one timer period.
ClockStep == TimerPeriod

\* Date.now() when the server starts: epoch milliseconds, far beyond either
\* interval, so that both age gates are open against the initial timestamps 0.
StartNow == PROCESS_LIST_INTERVAL

\* The process table at start, and the pids a viewer may ask to kill:
\* a negative one, zero, a live one, and one that is not in the table.
InitialPids == {3, 7}
KillInputs == {-1, 0, 3, 9}

\* CPU load of a process as the collector reports it (hundredths of a percent).
RawCpu(pid) == IF pid = 3 THEN 120 ELSE 4555

Platforms == {"linux", "win32"}

-----------------------------------------------------------------------------
(* Pure helpers *)

Min(a, b) == IF a < b THEN a ELSE b
Max(a, b) == IF a >= b THEN a ELSE b

\* Number.prototype.toFixed(1) of a non-negative value given in hundredths:
\* the nearest tenth.
ToFixed1(hundredths) == (hundredths + 5) \div 10

\* Array.prototype.slice(0, n)
Slice(s, n) == SubSeq(s, 1, Min(Len(s), n))

\* Insert e into a sequence sorted by descending cpu, after its equals
\* (Array.prototype.sort is stable).
RECURSIVE InsertByCpuDesc(_, _)
InsertByCpuDesc(e, s) ==
    IF s = <<>> THEN <<e>>
    ELSE IF Head(s).cpu >= e.cpu THEN <<Head(s)>> \o InsertByCpuDesc(e, Tail(s))
         ELSE <<e>> \o s

\* .sort((a, b) => parseFloat(b.cpu) - parseFloat(a.cpu))
RECURSIVE SortByCpuDesc(_)
SortByCpuDesc(s) ==
    IF s = <<>> THEN <<>>
    ELSE InsertByCpuDesc(s[Len(s)], SortByCpuDesc(SubSeq(s, 1, Len(s) - 1)))

\* The pids of a set in ascending order (the order of the process table).
RECURSIVE SetToSeq(_)
SetToSeq(S) ==
    IF S = {} THEN <<>>
    ELSE LET m == CHOOSE x \in S : \A y \in S : x <= y
         IN <<m>> \o SetToSeq(S \ {m})

PidsOf(list) == {list[i].pid : i \in 1 .. Len(list)}

-----------------------------------------------------------------------------
(* The collectors and the fallback chain of getProcessList *)

\* si.processes(): the list of the process table.
RawProcesses(table) ==
    LET pids == SetToSeq(table)
    IN [i \in 1 .. Len(pids) |-> [pid |-> pids[i], cpu |-> RawCpu(pids[i])]]

\* getDummyProcesses()
GetDummyProcesses ==
    << [pid |-> 1, cpu |-> 1], [pid |-> 2, cpu |-> 5],
       [pid |-> 3, cpu |-> 50], [pid |-> 4, cpu |-> 25] >>

\* .filter(process => process && process.pid > 0)
RECURSIVE FilterValid(_)
FilterValid(s) ==
    IF s = <<>> THEN <<>>
    ELSE IF Head(s).pid > 0 THEN <<Head(s)>> \o FilterValid(Tail(s))
         ELSE FilterValid(Tail(s))

\* The filter, map, sort and slice of getProcessList.
FormatProcesses(raw) ==
    LET kept == FilterValid(raw)
        mapped == [i \in 1 .. Len(kept) |->
                     [pid |-> kept[i].pid, cpu |-> ToFixed1(kept[i].cpu)]]
    IN Slice(SortByCpuDesc(mapped), TopN)

\* What getProcessList returns once si.processes() has settled with `outcome`:
\* "ok" (a list), "invalid" (no list in the result) or "throw".
ProcessListOf(outcome, raw) ==
    IF outcome = "ok"
    THEN LET formatted == FormatProcesses(raw)
         IN IF Len(formatted) = 0 THEN GetDummyProcesses ELSE formatted
    ELSE GetDummyProcesses


-----------------------------------------------------------------------------
(* The Windows strategy: tasklist /FO CSV and parseWindowsTasklist.  A line  *)
(* of the output is the sequence of its quoted non-empty fields (what the   *)
(* regular expression /"([^"]+)"/g matches), a field a sequence of          *)
(* characters.                                                              *)

Digits == <<"0", "1", "2", "3", "4", "5", "6", "7", "8", "9">>

IsDigit(c) == \E d \in 1 .. 10 : Digits[d] = c

DigitValue(c) == (CHOOSE d \in 1 .. 10 : Digits[d] = c) - 1

\* The decimal digits of a natural number.
RECURSIVE DigitsOf(_)
DigitsOf(n) ==
    IF n < 10 THEN <<Digits[n + 1]>>
    ELSE DigitsOf(n \div 10) \o <<Digits[(n % 10) + 1]>>

\* NaN: what parseInt gives for a field without a leading digit and what
\* 0 / 0 gives.  It stands outside every range of values; no arithmetic is
\* done on it.
NaN == -2147483647

\* The value of the longest prefix of digits of chars, continuing acc.
RECURSIVE ParseDigits(_, _)
ParseDigits(chars, acc) ==
    IF chars = <<>> \/ ~IsDigit(Head(chars)) THEN acc
    ELSE ParseDigits(Tail(chars), acc * 10 + DigitValue(Head(chars)))

\* parseInt(text, 10)
ParseInt(chars) ==
    IF chars # <<>> /\ Head(chars) = "-"
    THEN IF Len(chars) > 1 /\ IsDigit(chars[2])
         THEN 0 - ParseDigits(Tail(chars), 0)
         ELSE NaN
    ELSE IF chars # <<>> /\ IsDigit(Head(chars))
         THEN ParseDigits(chars, 0)
         ELSE NaN

TasklistHeader == << <<"I", "m", "a", "g", "e">>, <<"P", "I", "D">> >>

\* The output of tasklist /FO CSV for a process table.
TasklistOutput(table) ==
    LET pids == SetToSeq(table)
    IN <<TasklistHeader>> \o
       [i \in 1 .. Len(pids) |-> << <<"p">> \o DigitsOf(pids[i]), DigitsOf(pids[i]) >>]

\* Lines the command may print besides the rows of `table`: a line with one
\* quoted field, a row whose PID column is not a number, and the row of the
\* System Idle Process, whose PID is 0.
ShortLine == << <<"p">> >>
NoPidLine == << <<"p">>, <<"N", "/", "A">> >>
IdleLine == << <<"I", "d", "l", "e">>, <<"0">> >>

ExtraLines ==
    { << >>, <<ShortLine>>, <<NoPidLine>>, <<IdleLine>>, <<ShortLine, NoPidLine>> }

\* What the command may print: the header and a row per process, or the
\* header alone (no row for any process), each followed by `extra`.
TasklistOutputs(table, extra) ==
    {TasklistOutput(table) \o extra, <<TasklistHeader>> \o extra}

\* The entries parseWindowsTasklist pushes: one per line after the header
\* that has at least two quoted fields.
RECURSIVE TasklistEntries(_)
TasklistEntries(lines) ==
    IF lines = <<>> THEN <<>>
    ELSE IF Len(Head(lines)) >= 2
         THEN <<[pid |-> ParseInt(Head(lines)[2]), cpu |-> 0]>>
              \o TasklistEntries(Tail(lines))
         ELSE TasklistEntries(Tail(lines))

\* The values (Math.random() * 5).toFixed(1) may take that the model draws.
RandomCpus == {0, 37}

\* parseWindowsTasklist(output); random[i] is the CPU estimate drawn for
\* the i-th entry.
ParseWindowsTasklist(lines, random) ==
    LET entries == Slice(TasklistEntries(Tail(lines)), TopN)
    IN [i \in 1 .. Len(entries) |-> [pid |-> entries[i].pid, cpu |-> random[i]]]

-----------------------------------------------------------------------------
(* getSystemInfo *)

\* What si.mem() and si.currentLoad() return on a healthy host: memory in
\* millions of bytes, loads in hundredths of a percent.
MemSample == [total |-> 1000, used |-> 600, free |-> 400]
LoadSample == [currentLoad |-> 4270, cpus |-> <<1000, 9500>>]

NominalSample == [mem |-> MemSample, load |-> LoadSample, lines |-> << >>]

\* Values a collector may return besides: used above total, a total of 0,
\* a negative load, loads above 100 on more cores than are kept.
MemSamples ==
    { MemSample,
      [total |-> 1000, used |-> 1200, free |-> 100],
      [total |-> 0, used |-> 0, free |-> 0],
      [total |-> 0, used |-> 600, free |-> 400] }

LoadSamples ==
    { LoadSample,
      [currentLoad |-> -500, cpus |-> <<-500, 1000>>],
      [currentLoad |-> 15000, cpus |-> <<15000, 20000, 100, 100, 100>>] }

Samples ==
    {[mem |-> m, load |-> l, lines |-> << >>] : m \in MemSamples, l \in LoadSamples}

\* Hosts whose tasklist prints one of ExtraLines after its rows.
TasklistSamples ==
    {[mem |-> MemSample, load |-> LoadSample, lines |-> x] : x \in ExtraLines}

\* x.toFixed(1), without the cap
RoundLoad(hundredths) == ToFixed1(hundredths)

\* Math.min(x, 100).toFixed(1)
CapLoad(hundredths) == ToFixed1(Min(hundredths, 10000))

\* Math.min((used / total) * 100, 100).toFixed(1), for total >= 0 and
\* used >= 0: 0 / 0 is NaN, which Math.min and toFixed hand on, and
\* used / 0 is Infinity, which Math.min caps.
UsedPercent(mem) ==
    IF mem.total = 0
    THEN IF mem.used = 0 THEN NaN ELSE ToFixed1(10000)
    ELSE ToFixed1(Min((mem.used * 10000) \div mem.total, 10000))

\* The object getSystemInfo builds from the two samples.
BuildSystemInfo(mem, load) ==
    [ load |-> CapLoad(load.currentLoad),
      cores |-> Slice([i \in 1 .. Len(load.cpus) |-> CapLoad(load.cpus[i])], MaxCores),
      total |-> mem.total, free |-> mem.free, used |-> mem.used,
      usedPercent |-> UsedPercent(mem) ]

\* getDummySystemInfo()
GetDummySystemInfo ==
    [ load |-> 225, cores |-> <<250, 300, 150, 200>>,
      total |-> 8000, free |-> 4000, used |-> 4000,
      usedPercent |-> 500 ]

\* null, the initial value of systemInfoCache
Null == [null |-> TRUE]

-----------------------------------------------------------------------------
(* Events the server emits *)

ProcessListEvent(list) == [ev |-> "processList", list |-> list]

SystemInfoEvent(info) == [ev |-> "systemInfo", info |-> info]

PingEvent == [ev |-> "ping"]

\* socket.emit('killProcessAcknowledged', { pid })
KillAckEmits(pid) == << [ev |-> "killProcessAcknowledged", pid |-> pid] >>

\* A handler that reports the success before it emits the refreshed list.
KillSuccessEmitsResponseFirst(pid, list) ==
    << [ev |-> "killProcessResponse", success |-> TRUE, pid |-> pid,
        message |-> "terminated successfully"],
       ProcessListEvent(list) >>

\* The two emits after a successful kill and the refresh that follows it.
KillSuccessEmits(pid, list) ==
    << ProcessListEvent(list),
       [ev |-> "killProcessResponse", success |-> TRUE, pid |-> pid,
        message |-> "terminated successfully"] >>

\* A catch block that only logs the error.
KillFailureEmitsNothing(pid, message) == << >>

\* A catch block that passes error.message on without the default.
KillFailureEmitsRawMessage(pid, message) ==
    << [ev |-> "killProcessResponse", success |-> FALSE, pid |-> pid,
        error |-> message] >>

\* The emit of the catch block: error.message || 'Unknown error'
KillFailureEmits(pid, message) ==
    << [ev |-> "killProcessResponse", success |-> FALSE, pid |-> pid,
        error |-> IF message # "" THEN message ELSE "Unknown error"] >>

\* The messages the platform command's error may carry for a pid; "" is an
\* error without a message.
KillErrors(pid, table) ==
    IF pid \in table THEN {"Operation not permitted", ""}
    ELSE {"No such process", ""}

\* Whether the platform command can report success for a pid: the process
\* exists, or the argument names a process group (0, negative).
KillCanSucceed(pid, table) == pid \in table \/ pid <= 0

\* now - last >= interval, the age gate of updateInterval
GateOpen(now0, last, interval) == now0 - last >= interval

\* getProcessList without its Windows branch: si.processes() first everywhere.
FirstStepIsCollector(plat) == "processes"

\* The first await of getProcessList: tasklist on Windows, else si.processes().
FirstProcessListStep(plat) == IF plat = "win32" THEN "tasklist" ELSE "processes"

-----------------------------------------------------------------------------
(* Handler invocations.  An invocation occupies a slot from its first await *)
(* to its end; pc names the call it awaits.                                *)

\* The handler invocations that may be suspended at one time.
Slots == {1, 2}

PLSteps == {"tasklist", "processes"}
SISteps == {"mem", "load"}

Idle == [kind |-> "idle", v |-> 0, pc |-> "idle", now0 |-> 0, pid |-> 0, seen |-> {}]

\* An invocation: now0 is the clock when it started (updateInterval keeps it
\* in `now`), seen the process table when its process-list call was made.
Task(kind, v, pc, now0, pid) ==
    [kind |-> kind, v |-> v, pc |-> pc, now0 |-> now0, pid |-> pid,
     seen |-> IF pc \in PLSteps THEN alive ELSE {}]

FreeSlots(ts) == {s \in Slots : ts[s] = Idle}

CanStart(n) ==
    /\ requests + n <= MaxCalls
    /\ Cardinality(FreeSlots(tasks)) >= n

\* A handler starts n awaited calls.  In a bounded run the calls are counted
\* against MaxCalls; otherwise only the slots limit them.
Admit(n, bounded) ==
    IF bounded
    THEN CanStart(n) /\ requests' = requests + n
    ELSE Cardinality(FreeSlots(tasks)) >= n /\ requests' = requests

LowestFree(ts) == CHOOSE s \in FreeSlots(ts) : \A r \in FreeSlots(ts) : s <= r

\* ts with the invocations of `started` in its lowest free slots.
RECURSIVE Started(_, _)
Started(ts, started) ==
    IF started = <<>> THEN ts
    ELSE Started([ts EXCEPT ![LowestFree(ts)] = Head(started)], Tail(started))

\* What a step emitted: to socket v, from the invocation of slot `slot`
\* (0: the connection handler), the events in order; kind is the handler of
\* that invocation.
Out(v, slot, events) ==
    [ v |-> v, slot |-> slot, events |-> events,
      kind |-> IF slot = 0 THEN ""
               ELSE IF tasks[slot].kind # "idle" THEN tasks[slot].kind
               ELSE tasks'[slot].kind ]
NoOut == [v |-> 0, slot |-> 0, events |-> << >>, kind |-> ""]

\* The external call that settled in a step: for slot `slot`, the call and
\* its outcome, with the message of its error.
Settled(slot, call, outcome, message) ==
    [slot |-> slot, call |-> call, outcome |-> outcome, message |-> message]
NoneSettled == Settled(0, "none", "", "")

CollectorOutcomes == {"ok", "invalid", "throw"}

\* A connection handler that never fetches.
ConnectFetchesNothing(v, plat, plCache, siCache) == << >>

\* The fetches the connection handler starts: one for each kind whose cache
\* holds nothing (processListCache.length > 0, systemInfoCache truthy).
ConnectFetches(v, plat, plCache, siCache) ==
    (IF Len(plCache) = 0
     THEN <<Task("connectProcessList", v, FirstProcessListStep(plat), now, 0)>>
     ELSE << >>)
    \o (IF siCache = Null THEN <<Task("connectSystemInfo", v, "mem", now, 0)>> ELSE << >>)

\* A connection handler that sends only the ping and leaves the data to the
\* interval.
ConnectEmitsPingOnly(plCache, siCache) == <<PingEvent>>

\* What the connection handler emits before it returns: the cached values,
\* then the ping.
ConnectEmits(plCache, siCache) ==
    (IF Len(plCache) = 0 THEN << >> ELSE <<ProcessListEvent(plCache)>>)
    \o (IF siCache = Null THEN << >> ELSE <<SystemInfoEvent(siCache)>>)
    \o <<PingEvent>>

-----------------------------------------------------------------------------
(* The state of a viewer's session (useSocket) *)

ClientClockStep == KillTimeout \div 2

Kills == 1 .. MaxKills
ClientPids == {3, 9}
ServerErrors == {"No such process"}

NoStatus == [pid |-> 0, status |-> << >>]
KillStatus(pid, text) == [pid |-> pid, status |-> text]

Unresolved == [resolved |-> FALSE]
Resolved(response) == [resolved |-> TRUE, response |-> response]

NotConnectedResult(pid) ==
    [success |-> FALSE, pid |-> pid, error |-> "Not connected to server"]
TimedOutResult(pid) ==
    [success |-> FALSE, pid |-> pid, error |-> "Request timed out"]

\* One call of killProcess: its pid, its promise, the deadline of its
\* timeout (0: not armed, cleared or fired), whether its once listener is
\* still registered, and how far the server is with the request.
NoKill == [pid |-> 0, promise |-> Unresolved, deadline |-> 0,
           listening |-> FALSE, server |-> "none"]

\* The process lists of the session, as the pids of their entries: the
\* initial state of the hook, the two placeholder entries, and what a
\* processList event may carry (an array, empty or not, or something else).
InitialProcessList == << >>
PlaceholderList == <<1, 2>>
ProcessListData ==
    {[array |-> TRUE, list |-> <<3, 9>>], [array |-> TRUE, list |-> << >>],
     [array |-> FALSE, list |-> << >>]}

\* parseFloat(text) in tenths, for texts with at most one decimal: an
\* optional sign and the longest prefix that is a decimal number; NaN when
\* there is none.
RECURSIVE LeadingDigits(_)
LeadingDigits(chars) ==
    IF chars = << >> \/ ~IsDigit(Head(chars)) THEN 0
    ELSE 1 + LeadingDigits(Tail(chars))

ParseFloat(chars) ==
    LET negative == chars # << >> /\ Head(chars) = "-"
        body == IF negative THEN Tail(chars) ELSE chars
        n == LeadingDigits(body)
    IN IF n = 0 THEN NaN
       ELSE LET rest == SubSeq(body, n + 1, Len(body))
                tenth == IF Len(rest) >= 2 /\ rest[1] = "." /\ IsDigit(rest[2])
                         THEN DigitValue(rest[2]) ELSE 0
                tenths == ParseDigits(body, 0) * 10 + tenth
            IN IF negative THEN 0 - tenths ELSE tenths

\* !isNaN(x) && x <= 100 ? x : (!isNaN(x) ? Math.min(x, 100) : 0), in tenths
Sanitize(x) ==
    IF x # NaN /\ x <= 1000 THEN x
    ELSE IF x # NaN THEN Min(x, 1000) ELSE 0

\* The load and usedPercent strings a systemInfo may carry: what toFixed(1)
\* gives, and texts that are not a number, above 100 or negative.
LoadStrings ==
    { <<"4", "5", ".", "5">>, <<"0", ".", "0">>, <<"1", "0", "0", ".", "0">>,
      <<"1", "5", "0", ".", "0">>, <<"-", "5", ".", "0">>, <<"N", "a", "N">>,
      <<"a", "b", "c">> }

\* The systemInfo props of the component; the cores repeat the two strings.
SystemInfoProps ==
    { [load |-> l, usedPercent |-> u, cores |-> <<l, u>>] : l, u \in LoadStrings }

\* The prop before the first systemInfo has arrived (null)
NoSystemInfo == [load |-> << >>, usedPercent |-> << >>, cores |-> << >>]

\* A history that drops its newest entry instead of its oldest
PushHistoryDropsNewest(history, value) ==
    LET newHistory == Append(history, value)
    IN IF Len(newHistory) > HistoryLength
       THEN SubSeq(newHistory, 1, Len(newHistory) - 1)
       ELSE newHistory

\* newHistory = [...prev, value]; if (newHistory.length > 30) newHistory.shift()
PushHistory(history, value) ==
    LET newHistory == Append(history, value)
    IN IF Len(newHistory) > HistoryLength THEN Tail(newHistory) ELSE newHistory

\* dataTimeout is armed when the hook is mounted; 0: fired.  The histories
\* of the SystemInfo component start as Array(30).fill(0); systemInfo is its
\* prop, coreWidths the widths of the progress bars it has rendered, samples
\* the number of props it has been given.
ClientStart ==
    [clock |-> 0, connected |-> FALSE, killStatus |-> NoStatus,
     kills |-> [k \in Kills |-> NoKill], calls |-> 0,
     clears |-> {}, net |-> << >>,
     processList |-> InitialProcessList, dataTimeout |-> DataTimeout,
     cpuHistory |-> [i \in 1 .. HistoryLength |-> 0],
     memoryHistory |-> [i \in 1 .. HistoryLength |-> 0],
     systemInfo |-> NoSystemInfo, coreWidths |-> << >>, samples |-> 0]

-----------------------------------------------------------------------------
(* The state machine of src/server.js *)

\* The handles systemInfoInterval and processListInterval of a socket of
\* index.ts, each with the time its callback is due; 0: not set or cleared.
NoIntervals == [systemInfoInterval |-> 0, processListInterval |-> 0]

\* The state after the module has loaded, on a host whose collectors
\* return one of `samples`.
Loaded(samples) ==
    /\ platform \in Platforms
    /\ sample \in samples
    /\ intervals = [v \in Viewers |-> NoIntervals]
    /\ now = StartNow
    /\ alive = InitialPids
    /\ processListCache = <<>>
    /\ systemInfoCache = Null
    /\ lastProcessListUpdate = 0
    /\ lastSystemInfoUpdate = 0
    /\ status = [v \in Viewers |-> "new"]
    /\ timer = [v \in Viewers |-> 0]
    /\ tasks = [s \in Slots |-> Idle]
    /\ requests = 0
    /\ out = NoOut
    /\ settled = NoneSettled
    /\ cl = ClientStart

Init == Loaded({NominalSample})

\* Time passes, up to `ticks` clock steps in one run.
ClockAdvances(ticks) ==
    /\ now < StartNow + ticks * ClockStep
    /\ now' = now + ClockStep
    /\ out' = NoOut
    /\ settled' = NoneSettled
    /\ UNCHANGED <<platform, sample, intervals, alive, processListCache, systemInfoCache,
                   lastProcessListUpdate, lastSystemInfoUpdate, status, timer,
                   tasks, requests, cl>>

AdvanceClock == ClockAdvances(MaxTicks)

\* io.on('connection'): cached values are emitted at once, a missing one is
\* fetched; then the ping, the handlers and the interval.
ConnectionHandler(v, bounded) ==
    /\ status[v] = "new"
    /\ \A u \in Viewers : u < v => status[u] # "new"
    /\ LET started == ConnectFetches(v, platform, processListCache, systemInfoCache)
       IN /\ Admit(Len(started), bounded)
          /\ tasks' = Started(tasks, started)
    /\ out' = Out(v, 0, ConnectEmits(processListCache, systemInfoCache))
    /\ status' = [status EXCEPT ![v] = "connected"]
    /\ timer' = [timer EXCEPT ![v] = now + TimerPeriod]
    /\ settled' = NoneSettled
    /\ UNCHANGED <<platform, sample, intervals, now, alive, processListCache, systemInfoCache,
                   lastProcessListUpdate, lastSystemInfoUpdate, cl>>

Connect(v) == ConnectionHandler(v, TRUE)

\* A disconnect that also drops the handler invocations of the socket.
DisconnectCancelsRefresh(v) ==
    /\ status[v] = "connected"
    /\ status' = [status EXCEPT ![v] = "closed"]
    /\ timer' = [timer EXCEPT ![v] = 0]
    /\ tasks' = [s \in Slots |-> IF tasks[s].v = v THEN Idle ELSE tasks[s]]
    /\ out' = NoOut
    /\ settled' = NoneSettled
    /\ UNCHANGED <<platform, sample, intervals, now, alive, processListCache, systemInfoCache,
                   lastProcessListUpdate, lastSystemInfoUpdate, requests, cl>>

\* A disconnect handler without its clearInterval
DisconnectKeepsInterval(v) ==
    /\ status[v] = "connected"
    /\ status' = [status EXCEPT ![v] = "closed"]
    /\ out' = NoOut
    /\ settled' = NoneSettled
    /\ UNCHANGED <<platform, sample, intervals, now, alive, processListCache, systemInfoCache,
                   lastProcessListUpdate, lastSystemInfoUpdate, timer, tasks,
                   requests, cl>>

\* socket.on('disconnect'): clearInterval(updateInterval)
Disconnect(v) ==
    /\ status[v] = "connected"
    /\ status' = [status EXCEPT ![v] = "closed"]
    /\ timer' = [timer EXCEPT ![v] = 0]
    /\ out' = NoOut
    /\ settled' = NoneSettled
    /\ UNCHANGED <<platform, sample, intervals, now, alive, processListCache, systemInfoCache,
                   lastProcessListUpdate, lastSystemInfoUpdate, tasks, requests, cl>>

\* The callback of updateInterval up to its first await.
IntervalCallback(v, bounded) ==
    /\ timer[v] # 0
    /\ now >= timer[v]
    /\ timer' = [timer EXCEPT ![v] = now + TimerPeriod]
    /\ IF GateOpen(now, lastProcessListUpdate, PROCESS_LIST_INTERVAL)
       THEN /\ Admit(1, bounded)
            /\ tasks' = Started(tasks,
                   <<Task("interval", v, FirstProcessListStep(platform), now, 0)>>)
       ELSE IF GateOpen(now, lastSystemInfoUpdate, SYSTEM_INFO_INTERVAL)
            THEN /\ Admit(1, bounded)
                 /\ tasks' = Started(tasks, <<Task("interval", v, "mem", now, 0)>>)
            ELSE UNCHANGED <<tasks, requests>>
    /\ out' = NoOut
    /\ settled' = NoneSettled
    /\ UNCHANGED <<platform, sample, intervals, now, alive, processListCache, systemInfoCache,
                   lastProcessListUpdate, lastSystemInfoUpdate, status, cl>>

IntervalFire(v) == IntervalCallback(v, TRUE)

\* socket.on('getProcessList') up to its await
RequestProcessList(v) ==
    /\ status[v] = "connected"
    /\ CanStart(1)
    /\ requests' = requests + 1
    /\ tasks' = Started(tasks,
           <<Task("getProcessList", v, FirstProcessListStep(platform), now, 0)>>)
    /\ out' = NoOut
    /\ settled' = NoneSettled
    /\ UNCHANGED <<platform, sample, intervals, now, alive, processListCache, systemInfoCache,
                   lastProcessListUpdate, lastSystemInfoUpdate, status, timer, cl>>

\* socket.on('getSystemInfo') up to its await
RequestSystemInfo(v) ==
    /\ status[v] = "connected"
    /\ CanStart(1)
    /\ requests' = requests + 1
    /\ tasks' = Started(tasks, <<Task("getSystemInfo", v, "mem", now, 0)>>)
    /\ out' = NoOut
    /\ settled' = NoneSettled
    /\ UNCHANGED <<platform, sample, intervals, now, alive, processListCache, systemInfoCache,
                   lastProcessListUpdate, lastSystemInfoUpdate, status, timer, cl>>

\* socket.on('killProcess') up to its await: the acknowledgement, then
\* killProcessById, which hands the command to exec at once.
RequestKill(v, pid) ==
    /\ status[v] = "connected"
    /\ CanStart(1)
    /\ requests' = requests + 1
    /\ tasks' = Started(tasks, <<Task("killProcess", v, "kill", now, pid)>>)
    /\ out' = Out(v, LowestFree(tasks), KillAckEmits(pid))
    /\ settled' = NoneSettled
    /\ UNCHANGED <<platform, sample, intervals, now, alive, processListCache, systemInfoCache,
                   lastProcessListUpdate, lastSystemInfoUpdate, status, timer, cl>>


\* A handler that sends the list it fetched without storing it.
ProcessListFetchedNotStored(s, list) ==
    /\ UNCHANGED <<processListCache, lastProcessListUpdate>>
    /\ out' = Out(tasks[s].v, s, <<ProcessListEvent(list)>>)
    /\ tasks' = [tasks EXCEPT ![s] = Idle]

\* The handler of slot s from the return of getProcessList with `list` to
\* its next await or its end.
ProcessListFetched(s, list) ==
    LET k == tasks[s]
    IN CASE k.kind = "interval" ->
              /\ processListCache' = list
              /\ lastProcessListUpdate' = k.now0
              /\ out' = Out(k.v, s, <<ProcessListEvent(list)>>)
              /\ tasks' = [tasks EXCEPT ![s] =
                             IF GateOpen(k.now0, lastSystemInfoUpdate, SYSTEM_INFO_INTERVAL)
                             THEN [k EXCEPT !.pc = "mem", !.seen = {}] ELSE Idle]
         [] k.kind \in {"getProcessList", "connectProcessList"} ->
              /\ processListCache' = list
              /\ lastProcessListUpdate' = now
              /\ out' = Out(k.v, s, <<ProcessListEvent(list)>>)
              /\ tasks' = [tasks EXCEPT ![s] = Idle]
         [] k.kind = "killProcess" ->
              /\ processListCache' = list
              /\ lastProcessListUpdate' = lastProcessListUpdate
              /\ out' = Out(k.v, s, KillSuccessEmits(k.pid, list))
              /\ tasks' = [tasks EXCEPT ![s] = Idle]

\* The process table a call of slot s may report: the call runs a command
\* between its start and its return, and reports the table as the command
\* read it.
SampledTables(s) == {tasks[s].seen, alive}

\* execPromise('tasklist /FO CSV') settles: its output is parsed and
\* returned, or its error sends getProcessList on to si.processes().
TasklistReturn(s) ==
    /\ tasks[s].pc = "tasklist"
    /\ \/ /\ \E table \in SampledTables(s) :
             \E output \in TasklistOutputs(table, sample.lines) :
             \E random \in [1 .. Len(TasklistEntries(Tail(output))) -> RandomCpus] :
                ProcessListFetched(s, ParseWindowsTasklist(output, random))
          /\ settled' = Settled(s, "tasklist", "ok", "")
       \/ /\ tasks' = [tasks EXCEPT ![s].pc = "processes", ![s].seen = alive]
          /\ out' = NoOut
          /\ settled' = Settled(s, "tasklist", "throw", "")
          /\ UNCHANGED <<processListCache, lastProcessListUpdate>>
    /\ UNCHANGED <<platform, sample, intervals, now, alive, systemInfoCache, lastSystemInfoUpdate,
                   status, timer, requests, cl>>

\* si.processes() settles.
ProcessesReturn(s) ==
    /\ tasks[s].pc = "processes"
    /\ \E outcome \in CollectorOutcomes :
          /\ \E table \in SampledTables(s) :
                ProcessListFetched(s, ProcessListOf(outcome, RawProcesses(table)))
          /\ settled' = Settled(s, "processes", outcome, "")
    /\ UNCHANGED <<platform, sample, intervals, now, alive, systemInfoCache, lastSystemInfoUpdate,
                   status, timer, requests, cl>>

\* The handler of slot s from the return of getSystemInfo with `info` to
\* its end.
SystemInfoFetched(s, info) ==
    LET k == tasks[s]
    IN /\ systemInfoCache' = info
       /\ lastSystemInfoUpdate' = IF k.kind = "interval" THEN k.now0 ELSE now
       /\ out' = Out(k.v, s, <<SystemInfoEvent(info)>>)
       /\ tasks' = [tasks EXCEPT ![s] = Idle]

\* si.mem() settles: with a sample getSystemInfo goes on to si.currentLoad(),
\* without one, or on a throw, it returns the dummy.
MemReturn(s) ==
    /\ tasks[s].pc = "mem"
    /\ \E outcome \in CollectorOutcomes :
          /\ IF outcome = "ok"
             THEN /\ tasks' = [tasks EXCEPT ![s].pc = "load"]
                  /\ out' = NoOut
                  /\ UNCHANGED <<systemInfoCache, lastSystemInfoUpdate>>
             ELSE SystemInfoFetched(s, GetDummySystemInfo)
          /\ settled' = Settled(s, "mem", outcome, "")
    /\ UNCHANGED <<platform, sample, intervals, now, alive, processListCache, lastProcessListUpdate,
                   status, timer, requests, cl>>

\* si.currentLoad() settles.
LoadReturn(s) ==
    /\ tasks[s].pc = "load"
    /\ \E outcome \in CollectorOutcomes :
          /\ SystemInfoFetched(s, IF outcome = "ok"
                                  THEN BuildSystemInfo(sample.mem, sample.load)
                                  ELSE GetDummySystemInfo)
          /\ settled' = Settled(s, "load", outcome, "")
    /\ UNCHANGED <<platform, sample, intervals, now, alive, processListCache, lastProcessListUpdate,
                   status, timer, requests, cl>>

\* The callback of exec in killProcessById: on success the handler goes on
\* to getProcessList, on an error it emits the failure.
KillReturn(s) ==
    /\ tasks[s].pc = "kill"
    /\ \/ /\ KillCanSucceed(tasks[s].pid, alive)
          /\ alive' = alive \ {tasks[s].pid}
          /\ tasks' = [tasks EXCEPT ![s].pc = FirstProcessListStep(platform),
                                    ![s].seen = alive \ {tasks[s].pid}]
          /\ out' = NoOut
          /\ settled' = Settled(s, "kill", "ok", "")
       \/ \E message \in KillErrors(tasks[s].pid, alive) :
             /\ tasks' = [tasks EXCEPT ![s] = Idle]
             /\ out' = Out(tasks[s].v, s, KillFailureEmits(tasks[s].pid, message))
             /\ settled' = Settled(s, "kill", "error", message)
             /\ UNCHANGED alive
    /\ UNCHANGED <<platform, sample, intervals, now, processListCache, systemInfoCache,
                   lastProcessListUpdate, lastSystemInfoUpdate, status, timer, requests, cl>>

Next ==
    \/ AdvanceClock
    \/ \E v \in Viewers : Connect(v)
    \/ \E v \in Viewers : Disconnect(v)
    \/ \E v \in Viewers : IntervalFire(v)
    \/ \E v \in Viewers : RequestProcessList(v)
    \/ \E v \in Viewers : RequestSystemInfo(v)
    \/ \E v \in Viewers, pid \in KillInputs : RequestKill(v, pid)
    \/ \E s \in Slots : TasklistReturn(s)
    \/ \E s \in Slots : ProcessesReturn(s)
    \/ \E s \in Slots : MemReturn(s)
    \/ \E s \in Slots : LoadReturn(s)
    \/ \E s \in Slots : KillReturn(s)

Spec == Init /\ [][Next]_vars

\* A process-list call (tasklist, si.processes) of a suspended handler settles.
ProcessListSettles == \E s \in Slots : TasklistReturn(s) \/ ProcessesReturn(s)

\* A system-info call (si.mem, si.currentLoad) of a suspended handler settles.
SystemInfoSettles == \E s \in Slots : MemReturn(s) \/ LoadReturn(s)

\* A handler awaits a process-list call: the enabling condition of
\* ProcessListSettles.
ProcessListPending == \E s \in Slots : tasks[s].pc \in PLSteps

\* Weak fairness of ProcessListSettles, written with its enabling condition.
ProcessListCallsSettle ==
    []<>(~ProcessListPending) \/ []<><<ProcessListSettles>>_vars

\* Collector calls return or throw: while one is outstanding, one settles.
FairSpec == Spec /\ WF_vars(SystemInfoSettles) /\ ProcessListCallsSettle

-----------------------------------------------------------------------------
(* The cadence over unbounded time.  The handlers compare times only by     *)
(* their differences, and no gate looks further back than                   *)
(* PROCESS_LIST_INTERVAL, so the passing of one clock step is written as    *)
(* every stored time falling back by one step, not below                    *)
(* now - PROCESS_LIST_INTERVAL.  A due timer fires before the next step, and *)
(* an interval callback ends within the step in which it started.           *)

\* A stored time after one more clock step.
Aged(t) == Max(t - ClockStep, now - PROCESS_LIST_INTERVAL)

Elapse ==
    /\ \A v \in Viewers : timer[v] = 0 \/ timer[v] > now
    /\ \A s \in Slots : tasks[s].kind # "interval"
    /\ timer' = [v \in Viewers |-> IF timer[v] = 0 THEN 0 ELSE timer[v] - ClockStep]
    /\ lastProcessListUpdate' = Aged(lastProcessListUpdate)
    /\ lastSystemInfoUpdate' = Aged(lastSystemInfoUpdate)
    /\ out' = NoOut
    /\ settled' = NoneSettled
    /\ UNCHANGED <<platform, sample, intervals, now, alive, processListCache, systemInfoCache,
                   status, tasks, requests, cl>>

ViewerConnects(v) == ConnectionHandler(v, FALSE)

TimerFires(v) == IntervalCallback(v, FALSE)

CadenceNext ==
    \/ Elapse
    \/ \E v \in Viewers : ViewerConnects(v)
    \/ \E v \in Viewers : Disconnect(v)
    \/ \E v \in Viewers : TimerFires(v)
    \/ \E s \in Slots : TasklistReturn(s)
    \/ \E s \in Slots : ProcessesReturn(s)
    \/ \E s \in Slots : MemReturn(s)
    \/ \E s \in Slots : LoadReturn(s)

\* Time passes and due timers fire.
CadenceTick == Elapse \/ \E v \in Viewers : TimerFires(v)

CadenceSpec ==
    /\ Init
    /\ [][CadenceNext]_vars
    /\ WF_vars(CadenceTick)
    /\ WF_vars(SystemInfoSettles)
    /\ ProcessListCallsSettle

-----------------------------------------------------------------------------
(* Properties of the server *)

\* The events of a batch with a given name.
EventsNamed(events, name) == {i \in 1 .. Len(events) : events[i].ev = name}

KillResponses(events) == EventsNamed(events, "killProcessResponse")

\* !!process.killable, as the process table of the client reads an entry
IsKillable(entry) == "killable" \in DOMAIN entry /\ entry.killable

\* The pid has an entry in the most recent snapshot and that entry is not
\* killable.
ProtectedInSnapshot(pid) ==
    \E i \in 1 .. Len(processListCache) :
        processListCache[i].pid = pid /\ ~IsKillable(processListCache[i])

\* C1: for each resource kind at most one collector call is outstanding at
\* any instant.
AtMostOneCollectorCallPerKind ==
    /\ Cardinality({s \in Slots : tasks[s].pc \in PLSteps}) <= 1
    /\ Cardinality({s \in Slots : tasks[s].pc \in SISteps}) <= 1

\* C2: a refresh whose primary collector call throws or returns an invalid
\* result leaves the cache of its kind as it was (stated for a cache that
\* already holds a fetched value).
FailedRefreshKeepsCache ==
    [][ /\ ( /\ settled'.call = "processes"
             /\ settled'.outcome # "ok"
             /\ Len(processListCache) > 0 )
           => processListCache' = processListCache
        /\ ( /\ settled'.call \in SISteps
             /\ settled'.outcome # "ok"
             /\ systemInfoCache # Null )
           => systemInfoCache' = systemInfoCache ]_vars

\* C3: every kill request is acknowledged to its viewer in the step that
\* receives it, and answered with exactly one killProcessResponse for its
\* pid, to the same viewer, in the step that ends its handler; no other step
\* emits an acknowledgement or a response.
KillAckThenOneResponse ==
    [][ /\ \A s \in Slots :
              /\ (tasks[s] = Idle /\ tasks'[s].kind = "killProcess")
                    => out' = Out(tasks'[s].v, s,
                                  << [ev |-> "killProcessAcknowledged",
                                      pid |-> tasks'[s].pid] >>)
              /\ (tasks[s].kind = "killProcess" /\ tasks'[s].kind = "killProcess")
                    => IF tasks'[s] = tasks[s] THEN out'.slot # s ELSE out' = NoOut
              /\ (tasks[s].kind = "killProcess" /\ tasks'[s] = Idle)
                    => /\ out'.slot = s
                       /\ out'.v = tasks[s].v
                       /\ Cardinality(KillResponses(out'.events)) = 1
                       /\ \A i \in KillResponses(out'.events) :
                             out'.events[i].pid = tasks[s].pid
                       /\ EventsNamed(out'.events, "killProcessAcknowledged") = {}
        /\ KillResponses(out'.events) # {}
              => tasks[out'.slot].kind = "killProcess" /\ tasks'[out'.slot] = Idle
        /\ EventsNamed(out'.events, "killProcessAcknowledged") # {}
              => tasks[out'.slot] = Idle /\ tasks'[out'.slot].kind = "killProcess"
      ]_vars

\* C3 witness: a kill handler has just ended with its response.
KillAnswered == KillResponses(out.events) # {}

\* C4: the platform command is never executed for a pid whose entry in the
\* most recent snapshot is not killable.
ProtectedPidNeverKilled ==
    \A s \in Slots : tasks[s].pc = "kill" => ~ProtectedInSnapshot(tasks[s].pid)

\* C5: the platform command is never executed for a pid that is not a
\* positive integer.
InvalidPidNeverKilled ==
    \A s \in Slots : tasks[s].pc = "kill" => tasks[s].pid > 0

ForcedRefreshOmitsKilledPid ==
    \A i \in KillResponses(out.events) :
        out.events[i].success =>
            \A j \in EventsNamed(out.events, "processList") :
                out.events[i].pid \notin PidsOf(out.events[j].list)

\* C8: when the platform command fails, the handler still goes on to a
\* process-list collector call.
FailedKillStillRefreshes ==
    [][ \A s \in Slots :
          ( /\ tasks[s].kind = "killProcess"
            /\ settled'.slot = s
            /\ settled'.call = "kill"
            /\ settled'.outcome = "error" )
          => tasks'[s].pc \in PLSteps ]_vars

\* C9: when the platform command reports an error, the handler emits to the
\* requesting viewer exactly one killProcessResponse with success false, the
\* requested pid, and as reason the message of the error, or 'Unknown error'
\* when the error carries none.
KillFailureCarriesReason ==
    [][ \A s \in Slots :
          ( /\ tasks[s].kind = "killProcess"
            /\ tasks[s].pc = "kill"
            /\ settled'.slot = s
            /\ settled'.call = "kill"
            /\ settled'.outcome = "error" )
          => /\ out' = Out(tasks[s].v, s,
                           << [ev |-> "killProcessResponse", success |-> FALSE,
                               pid |-> tasks[s].pid,
                               error |-> IF settled'.message # ""
                                         THEN settled'.message
                                         ELSE "Unknown error"] >>)
             /\ out'.events[1].error # ""
      ]_vars

\* C9 witness: a kill failed with an error that carries no message and was
\* answered.
KillFailedWithoutMessage ==
    /\ settled.call = "kill"
    /\ settled.outcome = "error"
    /\ settled.message = ""
    /\ \E i \in KillResponses(out.events) : ~out.events[i].success

-----------------------------------------------------------------------------
(* The viewer's session: useSocket in client/src/hooks/useSocket.ts.  cl    *)
(* holds the hook's state, the promises killProcess has returned, the       *)
(* timers, and the events on their way from the server.  Times are ms since *)
(* the hook was mounted.                                                    *)

\* resolve(value): the first call settles the promise, later ones do nothing
Resolve(kill, value) ==
    IF kill.promise.resolved THEN kill
    ELSE [kill EXCEPT !.promise = Resolved(value)]

\* The status the persistent killProcessResponse handler shows
ResponseStatus(response) ==
    IF response.success
    THEN KillStatus(response.pid, <<"Terminated successfully">>)
    ELSE KillStatus(response.pid,
                    <<"Failed: ", IF response.error # "" THEN response.error
                                  ELSE "Unknown error">>)

\* A once listener that resolves the promise and leaves the timeout armed
OnceListenerKeepsTimeout(kill, response) ==
    IF kill.listening
    THEN [Resolve(kill, response) EXCEPT !.listening = FALSE]
    ELSE kill

\* The once listener of a call: clearTimeout(timeout); resolve(response)
OnceListener(kill, response) ==
    IF kill.listening
    THEN [Resolve(kill, response) EXCEPT !.deadline = 0, !.listening = FALSE]
    ELSE kill

\* The session's steps leave the server's variables alone.
ServerUnchanged ==
    UNCHANGED <<platform, sample, intervals, now, alive, processListCache, systemInfoCache,
                lastProcessListUpdate, lastSystemInfoUpdate, status, timer,
                tasks, requests, out, settled>>

ClientTick ==
    /\ ServerUnchanged
    /\ cl.clock < MaxClientTicks * ClientClockStep
    /\ cl' = [cl EXCEPT !.clock = @ + ClientClockStep]

\* newSocket.on('connect')
SocketConnect ==
    /\ ServerUnchanged
    /\ ~cl.connected
    /\ cl' = [cl EXCEPT !.connected = TRUE]

\* newSocket.on('disconnect'); what the server emits to the closed socket is
\* lost: the handlers of the requests it has not answered emit to the socket
\* of the connection that ended, also after the session has reconnected.
SocketDisconnect ==
    /\ ServerUnchanged
    /\ cl.connected
    /\ cl' = [cl EXCEPT
            !.connected = FALSE,
            !.net = << >>,
            !.kills = [k \in Kills |->
                         IF @[k].server \in {"received", "acknowledged"}
                         THEN [@[k] EXCEPT !.server = "closed"]
                         ELSE @[k]]]

\* killProcess(pid)
CallKillProcess(pid) ==
    /\ ServerUnchanged
    /\ cl.calls < MaxKills
    /\ LET k == cl.calls + 1
       IN IF ~cl.connected
          THEN cl' = [cl EXCEPT
                  !.calls = k,
                  !.kills[k] = [NoKill EXCEPT
                                  !.pid = pid,
                                  !.promise = Resolved(NotConnectedResult(pid))]]
          ELSE cl' = [cl EXCEPT
                  !.calls = k,
                  !.kills[k] = [pid |-> pid, promise |-> Unresolved,
                                deadline |-> cl.clock + KillTimeout,
                                listening |-> TRUE, server |-> "received"],
                  !.killStatus = KillStatus(pid, <<"Request sent...">>)]

\* The server's handler receives the request and acknowledges it.
ServerAcknowledges(k) ==
    /\ ServerUnchanged
    /\ cl.kills[k].server = "received"
    /\ cl' = [cl EXCEPT
            !.kills[k].server = "acknowledged",
            !.net = IF cl.connected
                    THEN Append(@, [ev |-> "killProcessAcknowledged",
                                    pid |-> cl.kills[k].pid])
                    ELSE @]

\* The server's handler ends with its response.
ServerResponds(k, response) ==
    /\ ServerUnchanged
    /\ cl.kills[k].server = "acknowledged"
    /\ cl' = [cl EXCEPT
            !.kills[k].server = "answered",
            !.net = IF cl.connected THEN Append(@, response) ELSE @]

ServerResponses(pid) ==
    {[ev |-> "killProcessResponse", success |-> TRUE, pid |-> pid,
      error |-> ""]}
    \cup {[ev |-> "killProcessResponse", success |-> FALSE, pid |-> pid,
           error |-> e] : e \in ServerErrors}

\* newSocket.on('killProcessAcknowledged')
OnKillProcessAcknowledged ==
    /\ ServerUnchanged
    /\ cl.net # << >>
    /\ Head(cl.net).ev = "killProcessAcknowledged"
    /\ cl' = [cl EXCEPT
            !.net = Tail(@),
            !.killStatus = KillStatus(Head(cl.net).pid, <<"Processing...">>)]

\* A killProcessResponse arrives: the persistent handler runs, then every
\* once listener that is registered.
OnKillProcessResponse ==
    /\ ServerUnchanged
    /\ cl.net # << >>
    /\ Head(cl.net).ev = "killProcessResponse"
    /\ LET response == Head(cl.net)
       IN cl' = [cl EXCEPT
               !.net = Tail(@),
               !.killStatus = ResponseStatus(response),
               !.clears = @ \cup {cl.clock + ClearDelay},
               !.kills = [k \in Kills |-> OnceListener(cl.kills[k], response)]]

\* The timeout of a call fires.
KillTimeoutFires(k) ==
    /\ ServerUnchanged
    /\ cl.kills[k].deadline # 0
    /\ cl.clock >= cl.kills[k].deadline
    /\ cl' = [cl EXCEPT
            !.kills[k] = [Resolve(@, TimedOutResult(@.pid)) EXCEPT !.deadline = 0],
            !.killStatus = KillStatus(cl.kills[k].pid, <<"Request timed out">>)]

\* The timer that clears the status fires.
ClearStatusFires(d) ==
    /\ ServerUnchanged
    /\ d \in cl.clears
    /\ cl.clock >= d
    /\ cl' = [cl EXCEPT !.clears = @ \ {d}, !.killStatus = NoStatus]

\* newSocket.on('processList')
OnProcessList(data) ==
    /\ ServerUnchanged
    /\ cl.connected
    /\ cl' = [cl EXCEPT
            !.processList = IF data.array THEN data.list ELSE PlaceholderList]

\* The callback of dataTimeout.  It was created by the effect that ran after
\* the first render, so the processList it tests is the initial state.
DataTimeoutFires ==
    /\ ServerUnchanged
    /\ cl.dataTimeout # 0
    /\ cl.clock >= cl.dataTimeout
    /\ cl' = [cl EXCEPT
            !.dataTimeout = 0,
            !.processList = IF Len(InitialProcessList) = 0
                            THEN PlaceholderList ELSE @]

ClientNext ==
    \/ ClientTick
    \/ SocketConnect
    \/ SocketDisconnect
    \/ \E pid \in ClientPids : CallKillProcess(pid)
    \/ \E k \in Kills : ServerAcknowledges(k)
    \/ \E k \in Kills : \E r \in ServerResponses(cl.kills[k].pid) : ServerResponds(k, r)
    \/ OnKillProcessAcknowledged
    \/ OnKillProcessResponse
    \/ \E k \in Kills : KillTimeoutFires(k)
    \/ \E d \in cl.clears : ClearStatusFires(d)
    \/ \E data \in ProcessListData : OnProcessList(data)
    \/ DataTimeoutFires

ClientInit == Init /\ platform = "linux"

ClientSpec == ClientInit /\ [][ClientNext]_vars

\* A step in which a killProcessResponse is delivered to the session.
ResponseArrives ==
    /\ cl.net # << >>
    /\ Head(cl.net).ev = "killProcessResponse"
    /\ cl'.net = Tail(cl.net)
    /\ cl'.connected = cl.connected

\* C10: a killProcessResponse that arrives after the timeout of its request
\* has fired changes neither the value the promise of that request resolved
\* with nor the kill status shown for that pid.
LateResponseKeepsTimeoutOutcome ==
    [][ \A k \in Kills :
          ( /\ cl.kills[k].promise = Resolved(TimedOutResult(cl.kills[k].pid))
            /\ cl.killStatus = KillStatus(cl.kills[k].pid, <<"Request timed out">>)
            /\ ResponseArrives
            /\ Head(cl.net).pid = cl.kills[k].pid )
          => /\ cl'.kills[k].promise = cl.kills[k].promise
             /\ cl'.killStatus = cl.killStatus ]_vars
-----------------------------------------------------------------------------
(* Properties of the server: viewers and pushes *)

\* C11: no event is emitted to a viewer whose disconnect the server has
\* handled.
NoEmitAfterDisconnect ==
    (out.v # 0 /\ out.events # << >>) => status[out.v] # "closed"

Receives(v, name) == out.v = v /\ EventsNamed(out.events, name) # {}

Recipients(batch) == IF batch.v = 0 THEN {} ELSE {batch.v}

\* C14: the snapshot an interval callback has fetched is pushed to every
\* viewer that is connected when it is emitted.
CadencePushReachesEveryViewer ==
    [][ \A s \in Slots :
          ( /\ tasks[s].kind = "interval"
            /\ tasks'[s] # tasks[s]
            /\ out'.slot = s
            /\ out'.events # << >> )
          => {v \in Viewers : status[v] = "connected"} \subseteq Recipients(out') ]_vars

\* C15: a viewer that stays connected receives processList pushes and
\* systemInfo pushes again and again.
EveryViewerKeepsReceiving ==
    \A v \in Viewers :
        <>[](status[v] = "connected") =>
            /\ []<>Receives(v, "processList")
            /\ []<>Receives(v, "systemInfo")


-----------------------------------------------------------------------------
(* Properties of the server: the caches and what a snapshot holds *)

\* C16: once a system-info refresh has succeeded (the cache holds what the
\* collector returned) systemInfoCache is never null again, and once a
\* process-list refresh has succeeded (the cache holds entries of a real
\* strategy) processListCache is never empty again, whatever refreshes follow.
CacheNeverLostAgain ==
    [][ /\ systemInfoCache \notin {Null, GetDummySystemInfo}
            => systemInfoCache' # Null
        /\ processListCache \notin {<< >>, GetDummyProcesses}
            => processListCache' # << >> ]_vars


\* The system-info path alone, on hosts whose collectors return any of
\* Samples: viewers connect and ask, si.mem() and si.currentLoad() settle.
SampleInit == Loaded(Samples)

SampleNext ==
    \/ \E v \in Viewers : Connect(v)
    \/ \E v \in Viewers : RequestSystemInfo(v)
    \/ \E s \in Slots : MemReturn(s)
    \/ \E s \in Slots : LoadReturn(s)

SampleSpec == SampleInit /\ [][SampleNext]_vars

\* A percentage in tenths that lies in [0, 100].
InPercentRange(tenths) == 0 <= tenths /\ tenths <= 1000

\* C17: in every systemInfo event sent to a viewer cpu.load, every core load
\* and memory.usedPercent lie in [0, 100], and memory.used + memory.free is
\* at most memory.total, whatever the collectors returned.
SystemInfoFieldsInRange ==
    \A i \in EventsNamed(out.events, "systemInfo") :
        LET info == out.events[i].info
        IN /\ InPercentRange(info.load)
           /\ \A c \in 1 .. Len(info.cores) : InPercentRange(info.cores[c])
           /\ InPercentRange(info.usedPercent)
           /\ info.used + info.free <= info.total


\* A list is in descending order of cpu.
SortedByCpuDesc(list) ==
    \A i \in 1 .. Len(list) - 1 : list[i].cpu >= list[i + 1].cpu

\* C18: every processList sent to a viewer is sorted in descending order of
\* CPU percent and has at most 50 entries, whichever strategy produced it.
ProcessListSortedAndTopN ==
    \A i \in EventsNamed(out.events, "processList") :
        /\ SortedByCpuDesc(out.events[i].list)
        /\ Len(out.events[i].list) <= TopN


\* C19: no processList event sent to a viewer carries an empty list.
ProcessListNeverEmpty ==
    \A i \in EventsNamed(out.events, "processList") :
        out.events[i].list # << >>


\* A call of getProcessList settled in the step and the handler sent the
\* placeholder list it returned.
PlaceholderSent ==
    /\ settled.call \in {"tasklist", "processes"}
    /\ \E i \in EventsNamed(out.events, "processList") :
           out.events[i].list = GetDummyProcesses

-----------------------------------------------------------------------------
(* Properties of the server: the tasklist parser *)

\* The process-list path alone, on hosts whose tasklist prints any of
\* ExtraLines: viewers connect and ask, tasklist and si.processes() settle.
TasklistInit == Loaded(TasklistSamples)

TasklistNext ==
    \/ \E v \in Viewers : Connect(v)
    \/ \E v \in Viewers : RequestProcessList(v)
    \/ \E s \in Slots : TasklistReturn(s)
    \/ \E s \in Slots : ProcessesReturn(s)

TasklistSpec == TasklistInit /\ [][TasklistNext]_vars

\* A well-formed process line: at least the image name and a numeric PID.
WellFormedLine(line) == Len(line) >= 2 /\ ParseInt(line[2]) # NaN

WellFormedLines(output) ==
    {i \in 2 .. Len(output) : WellFormedLine(output[i])}

\* The pids of a list, in its order.
PidSeq(list) == [i \in 1 .. Len(list) |-> list[i].pid]

\* C21: the list parseWindowsTasklist returns has exactly one entry per
\* well-formed process line of the output and none for a malformed or short
\* line.
OneEntryPerWellFormedLine ==
    (settled.call = "tasklist" /\ settled.outcome = "ok") =>
        \A i \in EventsNamed(out.events, "processList") :
            \E output \in TasklistOutputs(alive, sample.lines) :
                /\ PidSeq(out.events[i].list) = PidSeq(TasklistEntries(Tail(output)))
                /\ Len(out.events[i].list) = Cardinality(WellFormedLines(output))


\* C22: every entry of every processList sent to a viewer has a pid that is
\* a positive integer.
DeliveredPidsPositive ==
    \A i \in EventsNamed(out.events, "processList") :
        \A j \in 1 .. Len(out.events[i].list) :
            out.events[i].list[j].pid > 0


-----------------------------------------------------------------------------
(* Properties of the server: disconnects, explicit requests, cache order *)

\* A handler invocation of a closed socket is suspended on a refresh call.
RefreshInFlightOfClosed ==
    \E s \in Slots :
        /\ tasks[s].pc \in PLSteps \cup SISteps
        /\ status[tasks[s].v] = "closed"

\* C23: a disconnect cancels only the timer of its viewer: the suspended
\* handler invocations, the caches and the timers of the other viewers are
\* left as they are; a refresh of the closed viewer that is in flight still
\* completes, and its result is written to the shared cache.
DisconnectCancelsOnlyTimer ==
    /\ [][ \A v \in Viewers :
              (status[v] = "connected" /\ status'[v] = "closed") =>
                  /\ timer'[v] = 0
                  /\ \A w \in Viewers \ {v} :
                        timer'[w] = timer[w] /\ status'[w] = status[w]
                  /\ tasks' = tasks
                  /\ processListCache' = processListCache
                  /\ systemInfoCache' = systemInfoCache
                  /\ out'.events = << >> ]_vars
    /\ [][ (out'.slot # 0 /\ status'[out'.v] = "closed") =>
              /\ \A i \in EventsNamed(out'.events, "processList") :
                    processListCache' = out'.events[i].list
              /\ \A i \in EventsNamed(out'.events, "systemInfo") :
                    systemInfoCache' = out'.events[i].info ]_vars
    /\ RefreshInFlightOfClosed ~> ~RefreshInFlightOfClosed

\* A refresh of a viewer that had disconnected has completed and its list is
\* in the cache.
RefreshOfClosedViewerCached ==
    /\ out.slot # 0
    /\ status[out.v] = "closed"
    /\ \E i \in EventsNamed(out.events, "processList") :
          /\ processListCache = out.events[i].list
          /\ settled.outcome = "ok"


\* The handlers of explicit requests and the event each replies with.
ExplicitKinds == {"getProcessList", "getSystemInfo"}

ReplyName(kind) == IF kind = "getProcessList" THEN "processList" ELSE "systemInfo"

\* The value an event carries.
ValueOf(event) == IF event.ev = "processList" THEN event.list ELSE event.info

\* C24: an explicit getProcessList or getSystemInfo request is served
\* whatever the age of the cache: until its call has returned the handler
\* emits nothing, then it sends the requester exactly one processList
\* (respectively systemInfo) event, whose value is the one it has just stored
\* in the cache; every such request is answered.
ExplicitRequestAnsweredOnce ==
    /\ [][ \A s \in Slots :
              (tasks[s].kind \in ExplicitKinds /\ tasks'[s] # tasks[s]) =>
                  IF tasks'[s].kind = tasks[s].kind
                  THEN out' = NoOut
                  ELSE /\ tasks'[s] = Idle
                       /\ out'.v = tasks[s].v /\ out'.slot = s
                       /\ Len(out'.events) = 1
                       /\ out'.events[1].ev = ReplyName(tasks[s].kind)
                       /\ ValueOf(out'.events[1]) =
                             IF tasks[s].kind = "getProcessList"
                             THEN processListCache' ELSE systemInfoCache' ]_vars
    /\ \A s \in Slots :
          (tasks[s].kind \in ExplicitKinds) ~> (tasks[s].kind \notin ExplicitKinds)

\* An explicit getProcessList request has been answered with the list it
\* stored, before the clock reached StartNow + PROCESS_LIST_INTERVAL, the
\* earliest time at which the cadence lets a second refresh through.
ExplicitReplyFromFreshFetch ==
    /\ out.kind = "getProcessList"
    /\ \E i \in EventsNamed(out.events, "processList") :
          processListCache = out.events[i].list
    /\ lastProcessListUpdate = now
    /\ now < StartNow + PROCESS_LIST_INTERVAL


-----------------------------------------------------------------------------
(* Properties of getSystemInfo: what a snapshot holds *)

Abs(x) == IF x < 0 THEN 0 - x ELSE x

\* tenths is a / b rounded to one decimal, for b > 0 and a, b in the same
\* unit: a / b lies within half a tenth of it.
IsRatioToTenths(tenths, a, b) == 2 * Abs(a * 10 - tenths * b) <= b

\* The step delivered the snapshot getSystemInfo built from the samples.
BuiltSnapshotSent ==
    /\ settled.call = "load" /\ settled.outcome = "ok"
    /\ EventsNamed(out.events, "systemInfo") # {}

\* C25: the delivered snapshot has usedPercent equal to used * 100 / total
\* rounded to one decimal and the collector's cores, all of them and in
\* their order; for total 1000, used 600 and core loads 10 and 95 it has
\* usedPercent "60.0" and the two loads 10 and 95.
SnapshotMirrorsSample ==
    BuiltSnapshotSent =>
        \A i \in EventsNamed(out.events, "systemInfo") :
            LET info == out.events[i].info
                cpus == sample.load.cpus
            IN /\ sample.mem.total > 0 =>
                     IsRatioToTenths(info.usedPercent, sample.mem.used * 100,
                                     sample.mem.total)
               /\ Len(info.cores) = Len(cpus)
               /\ \A c \in 1 .. Len(cpus) :
                     IsRatioToTenths(info.cores[c], cpus[c], 100)

\* C25 as amended: usedPercent is used * 100 / total capped at 100 and
\* rounded to one decimal (for a total of 0: NaN when used is 0, else
\* 100.0), and the delivered cores are the first four of the collector's
\* cores in their order, each load capped at 100 and rounded to one decimal;
\* for total 1000, used 600 and core loads 10 and 95 this is "60.0" and the
\* loads "10.0" and "95.0".
SnapshotCapsSample ==
    BuiltSnapshotSent =>
        \A i \in EventsNamed(out.events, "systemInfo") :
            LET info == out.events[i].info
                mem == sample.mem
                cpus == sample.load.cpus
            IN /\ mem.total > 0 /\ mem.used <= mem.total =>
                     IsRatioToTenths(info.usedPercent, mem.used * 100, mem.total)
               /\ mem.total > 0 /\ mem.used > mem.total => info.usedPercent = 1000
               /\ mem.total = 0 /\ mem.used = 0 => info.usedPercent = NaN
               /\ mem.total = 0 /\ mem.used > 0 => info.usedPercent = 1000
               /\ Len(info.cores) = Min(Len(cpus), MaxCores)
               /\ \A c \in 1 .. Len(info.cores) :
                     IF cpus[c] > 10000 THEN info.cores[c] = 1000
                     ELSE IsRatioToTenths(info.cores[c], cpus[c], 100)
               /\ sample = NominalSample =>
                     info.usedPercent = 600 /\ info.cores = <<100, 950>>

\* A snapshot was delivered for a sample with used above total and more
\* cores than are kept.
CappedSnapshotSent ==
    /\ BuiltSnapshotSent
    /\ sample.mem.used > sample.mem.total /\ sample.mem.total > 0
    /\ Len(sample.load.cpus) > MaxCores


-----------------------------------------------------------------------------
(* The kill-process handler of src/server/src/index.ts.  It shares no state *)
(* with the pushes of that server, which are an event without content here. *)

\* The pid of a request that carries none.
Undefined == NaN - 1

IndexKillInputs == {Undefined, 0, 3, 9}

\* A test that lets the pid 0 through.
FalsyUndefinedOnly(pid) == pid = Undefined

\* !pid
Falsy(pid) == pid \in {Undefined, NaN, 0}

\* socket.emit('kill-process-response', { success, message })
KillProcessResponse(success, message) ==
    [ev |-> "kill-process-response", success |-> success, message |-> message]

\* io.on('connection'): the two intervals are set.
IndexConnection(v) ==
    /\ status[v] = "new"
    /\ status' = [status EXCEPT ![v] = "connected"]
    /\ out' = NoOut
    /\ settled' = NoneSettled
    /\ UNCHANGED <<platform, sample, intervals, now, alive, processListCache, systemInfoCache,
                   lastProcessListUpdate, lastSystemInfoUpdate, timer, tasks,
                   requests, cl>>

\* A callback of systemInfoInterval or processListInterval emits its event.
IndexIntervalPush(v) ==
    /\ status[v] = "connected"
    /\ \E name \in {"system-info", "process-list"} :
          out' = [v |-> v, slot |-> 0, events |-> <<[ev |-> name]>>, kind |-> "interval"]
    /\ settled' = NoneSettled
    /\ UNCHANGED <<platform, sample, intervals, now, alive, processListCache, systemInfoCache,
                   lastProcessListUpdate, lastSystemInfoUpdate, status, timer,
                   tasks, requests, cl>>

\* socket.on('kill-process') up to its end or to the call of exec.
KillProcessRequest(v, pid) ==
    /\ status[v] = "connected"
    /\ requests < MaxCalls
    /\ requests' = requests + 1
    /\ IF Falsy(pid)
       THEN /\ out' = [v |-> v, slot |-> 0, kind |-> "kill-process",
                       events |-> <<KillProcessResponse(FALSE, "Invalid PID")>>]
            /\ tasks' = tasks
       ELSE /\ FreeSlots(tasks) # {}
            /\ tasks' = Started(tasks, <<Task("kill-process", v, "exec", now, pid)>>)
            /\ out' = NoOut
    /\ settled' = NoneSettled
    /\ UNCHANGED <<platform, sample, intervals, now, alive, processListCache, systemInfoCache,
                   lastProcessListUpdate, lastSystemInfoUpdate, status, timer, cl>>

\* The callback of exec in the kill-process handler.
KillProcessExecReturn(s) ==
    /\ tasks[s].pc = "exec"
    /\ \/ /\ KillCanSucceed(tasks[s].pid, alive)
          /\ alive' = alive \ {tasks[s].pid}
          /\ out' = Out(tasks[s].v, s,
                        <<KillProcessResponse(TRUE, "terminated successfully")>>)
          /\ settled' = Settled(s, "exec", "ok", "")
       \/ \E message \in KillErrors(tasks[s].pid, alive) :
             /\ out' = Out(tasks[s].v, s,
                   <<KillProcessResponse(FALSE,
                        IF message # "" THEN message
                        ELSE "Failed to terminate process")>>)
             /\ settled' = Settled(s, "exec", "error", message)
             /\ UNCHANGED alive
    /\ tasks' = [tasks EXCEPT ![s] = Idle]
    /\ UNCHANGED <<platform, sample, intervals, now, processListCache, systemInfoCache,
                   lastProcessListUpdate, lastSystemInfoUpdate, status, timer,
                   requests, cl>>

IndexNext ==
    \/ \E v \in Viewers : IndexConnection(v)
    \/ \E v \in Viewers : Disconnect(v)
    \/ \E v \in Viewers : IndexIntervalPush(v)
    \/ \E v \in Viewers, pid \in IndexKillInputs : KillProcessRequest(v, pid)
    \/ \E s \in Slots : KillProcessExecReturn(s)

\* The callback of a started exec is called.
ExecSettles == \E s \in Slots : KillProcessExecReturn(s)

IndexSpec == Init /\ [][IndexNext]_vars /\ WF_vars(ExecSettles)

\* C26: every kill-process request is answered with exactly one
\* kill-process-response: a request with a missing or zero pid at once, with
\* success false and the message 'Invalid PID', no command being executed;
\* any other when the callback of its command is called, which it is.
KillProcessAnsweredOnce ==
    /\ [][ requests' = requests + 1 =>
              \/ /\ tasks' = tasks /\ alive' = alive
                 /\ out'.events = <<KillProcessResponse(FALSE, "Invalid PID")>>
              \/ /\ out'.events = << >>
                 /\ \E s \in Slots :
                       /\ tasks[s] = Idle /\ tasks'[s].pc = "exec"
                       /\ tasks'[s].pid \notin {Undefined, 0}
                       /\ \A t \in Slots \ {s} : tasks'[t] = tasks[t] ]_vars
    /\ [][ \A s \in Slots :
              tasks[s].pc = "exec" =>
                  IF tasks'[s] = tasks[s]
                  THEN out'.slot # s
                  ELSE /\ tasks'[s] = Idle
                       /\ out'.v = tasks[s].v /\ out'.slot = s
                       /\ Len(out'.events) = 1
                       /\ out'.events[1].ev = "kill-process-response" ]_vars
    /\ \A s \in Slots : (tasks[s].pc = "exec") ~> (tasks[s] = Idle)

\* A request without a usable pid has been answered and nothing was run.
InvalidPidAnswered ==
    /\ out.events = <<KillProcessResponse(FALSE, "Invalid PID")>>
    /\ \A s \in Slots : tasks[s] = Idle
    /\ alive = InitialPids

-----------------------------------------------------------------------------
(* C27: a killed pid in later process lists *)

\* The success killProcessResponse for pid has been sent: the process is gone
\* and the invocation that killed it has finished its forced refresh.
KillSuccessSent(pid) ==
    /\ pid \in InitialPids \ alive
    /\ \A s \in Slots :
          ~(tasks[s].kind = "killProcess" /\ tasks[s].pid = pid /\ tasks[s].pc \in PLSteps)

\* A step of another handler delivered a list that a strategy of
\* getProcessList produced (not the placeholder) to a viewer, all viewers
\* being still connected.
LaterListDelivered ==
    /\ out.kind \notin {"", "killProcess"}
    /\ settled.call \in PLSteps
    /\ settled.outcome = "ok"
    /\ EventsNamed(out.events, "processList") # {}
    /\ \A v \in Viewers : status[v] # "closed"

\* C27: once the success killProcessResponse for a pid has been sent, no
\* processList event delivered later contains that pid, also when the refresh
\* that delivers it started before the kill.
KilledPidNeverListedAgain ==
    \A pid \in InitialPids :
        (KillSuccessSent(pid) /\ LaterListDelivered) =>
            \A j \in EventsNamed(out.events, "processList") :
                pid \notin PidsOf(out.events[j].list)

-----------------------------------------------------------------------------
(* C28: the order of the samples in the cache *)

\* The step before stored the list that a strategy of an interval refresh
\* produced: the cache holds it, and lastProcessListUpdate is the clock when that refresh began.
IntervalListJustCached ==
    /\ out.kind = "interval"
    /\ settled.call \in PLSteps
    /\ settled.outcome = "ok"
    /\ EventsNamed(out.events, "processList") # {}
    /\ Len(processListCache) > 0

\* The invocation of slot s awaits the first call of a getProcessList() that
\* it made before the refresh whose list is in the cache began.
AwaitsOlderList(s) ==
    /\ tasks[s].kind \in {"connectProcessList", "getProcessList", "interval"}
    /\ tasks[s].pc = FirstProcessListStep(platform)
    /\ IntervalListJustCached
    /\ tasks[s].now0 < lastProcessListUpdate

\* The invocation of slot s gets a list with entries from a call that
\* succeeded.
GetsList(s) ==
    /\ settled'.slot = s
    /\ settled'.call \in PLSteps
    /\ settled'.outcome = "ok"
    /\ tasks'[s].pc \notin PLSteps
    /\ \A j \in EventsNamed(out'.events, "processList") : Len(out'.events[j].list) > 0

\* C28: the list of a refresh whose collector call started before that of
\* the refresh whose list the cache holds is never written over it.
OlderListNeverOverwrites ==
    [][ \A s \in Slots :
           (AwaitsOlderList(s) /\ GetsList(s)) => processListCache' = processListCache ]_vars

-----------------------------------------------------------------------------
(* C29: the age of the cached list *)

\* The invocation of slot s replaces processListCache by the list of a
\* getProcessList() call that succeeded.
StoresFetchedList(s) ==
    /\ tasks[s].pc \in PLSteps
    /\ tasks'[s].pc \notin PLSteps
    /\ settled'.slot = s
    /\ settled'.outcome = "ok"

\* C29: every step that replaces processListCache by a successfully fetched
\* list sets lastProcessListUpdate as well (to the time the tick read for an
\* interval refresh, to the current time otherwise), the kill handler's
\* replacement included.
CacheAgeSetWithList ==
    [][ \A s \in Slots :
           StoresFetchedList(s) =>
               lastProcessListUpdate' =
                   IF tasks[s].kind = "interval" THEN tasks[s].now0 ELSE now ]_vars

-----------------------------------------------------------------------------
(* C30: the order of the cache timestamps.  An interval refresh stores the   *)
(* time its tick read before the call, the other refreshes the time at the   *)
(* return of the call; the clock runs MaxLateTicks steps, so that a call     *)
(* can return a whole step after a later tick began.                         *)

AdvanceClockLate == ClockAdvances(MaxLateTicks)

TimestampNext ==
    \/ AdvanceClockLate
    \/ \E v \in Viewers : Connect(v)
    \/ \E v \in Viewers : IntervalFire(v)
    \/ \E v \in Viewers : RequestProcessList(v)
    \/ \E v \in Viewers : RequestSystemInfo(v)
    \/ \E s \in Slots : TasklistReturn(s)
    \/ \E s \in Slots : ProcessesReturn(s)
    \/ \E s \in Slots : MemReturn(s)
    \/ \E s \in Slots : LoadReturn(s)

TimestampSpec == Init /\ [][TimestampNext]_vars

\* C30: lastProcessListUpdate and lastSystemInfoUpdate never decrease.
TimestampsNeverDecrease ==
    [][ /\ lastProcessListUpdate' >= lastProcessListUpdate
        /\ lastSystemInfoUpdate' >= lastSystemInfoUpdate ]_vars

-----------------------------------------------------------------------------
(* src/server/src/index.ts, the version that keeps caches (lines 142-498):  *)
(* updateSystemInfo and updateProcessList as they run on connect and on     *)
(* their intervals, in runs in which no viewer asks for a kill.              *)

PROCESS_UPDATE_INTERVAL == 10000
SYSTEM_UPDATE_INTERVAL == 5000

\* !systemInfoCache || now - lastSystemInfoUpdate > SYSTEM_UPDATE_INTERVAL
SystemInfoStale(now0) ==
    systemInfoCache = Null \/ now0 - lastSystemInfoUpdate > SYSTEM_UPDATE_INTERVAL

\* processListCache.length === 0 || now - lastProcessUpdate > PROCESS_UPDATE_INTERVAL
ProcessListStale(now0) ==
    Len(processListCache) = 0 \/ now0 - lastProcessListUpdate > PROCESS_UPDATE_INTERVAL

\* updateSystemInfo() up to its await: with a stale cache it calls
\* getSystemInfo(), with a fresh one it emits the cache and ends.
SystemInfoUpdateStarts(v) ==
    IF SystemInfoStale(now)
    THEN <<Task("updateSystemInfo", v, "systemInfo", now, 0)>> ELSE << >>

SystemInfoUpdateEmits ==
    IF SystemInfoStale(now) THEN << >> ELSE <<SystemInfoEvent(systemInfoCache)>>

\* updateProcessList() up to its await, in the same way.
ProcessListUpdateStarts(v) ==
    IF ProcessListStale(now)
    THEN <<Task("updateProcessList", v, "processes", now, 0)>> ELSE << >>

ProcessListUpdateEmits ==
    IF ProcessListStale(now) THEN << >> ELSE <<ProcessListEvent(processListCache)>>

\* socket.emit('error', message)
ErrorEvent(message) == [ev |-> "error", message |-> message]

\* The object getSystemInfo builds from si.mem() and si.currentLoad().
IndexSystemInfo(mem, load) ==
    [ load |-> ToFixed1(load.currentLoad),
      cores |-> [i \in 1 .. Len(load.cpus) |-> ToFixed1(load.cpus[i])],
      total |-> mem.total, free |-> mem.free, used |-> mem.used,
      usedPercent |-> IF mem.total = 0 THEN NaN
                      ELSE ToFixed1((mem.used * 10000) \div mem.total) ]

\* The output of ps -eo pid,comm,%cpu,%mem,user for a process table: the
\* header, then five columns a process, the load in hundredths.
PsHeader == << <<"P", "I", "D">>, <<"C">>, <<"%">>, <<"%">>, <<"U">> >>

PsOutput(table) ==
    LET pids == SetToSeq(table)
    IN <<PsHeader>> \o
       [i \in 1 .. Len(pids) |->
          << DigitsOf(pids[i]), <<"p">>, DigitsOf(RawCpu(pids[i])), <<"0">>, <<"u">> >>]

\* parseUnixPS(output): an entry for each line after the header that has
\* five columns.
RECURSIVE PsEntries(_)
PsEntries(lines) ==
    IF lines = <<>> THEN <<>>
    ELSE IF Len(Head(lines)) >= 5
         THEN <<[pid |-> ParseInt(Head(lines)[1]), cpu |-> ParseInt(Head(lines)[3])]>>
              \o PsEntries(Tail(lines))
         ELSE PsEntries(Tail(lines))

\* What the fallback command prints and its parser makes of it: tasklist on
\* Windows, ps elsewhere; the command may print its header alone.
ShellLists(plat, table) ==
    IF plat = "win32"
    THEN {TasklistEntries(Tail(output)) : output \in TasklistOutputs(table, << >>)}
    ELSE {PsEntries(Tail(output)) : output \in {PsOutput(table), <<PsHeader>>}}

\* .filter(process => process.name && process.pid)
RECURSIVE FilterTruthyPid(_)
FilterTruthyPid(s) ==
    IF s = <<>> THEN <<>>
    ELSE IF Head(s).pid \notin {0, NaN} THEN <<Head(s)>> \o FilterTruthyPid(Tail(s))
         ELSE FilterTruthyPid(Tail(s))

\* What getProcessList returns for the list of a strategy: [] for an empty
\* one, else the entries filtered, mapped (toFixed(1) on the loads that are
\* numbers, those of the collector), sorted and cut.
IndexProcessList(list, numeric) ==
    IF Len(list) = 0 THEN << >>
    ELSE LET kept == FilterTruthyPid(list)
             mapped == [i \in 1 .. Len(kept) |->
                          [pid |-> kept[i].pid,
                           cpu |-> IF numeric THEN ToFixed1(kept[i].cpu) ELSE kept[i].cpu]]
         IN Slice(SortByCpuDesc(mapped), TopN)

\* What arms the two intervals of a socket.
BothIntervals ==
    [ systemInfoInterval |-> now + SYSTEM_UPDATE_INTERVAL,
      processListInterval |-> now + PROCESS_UPDATE_INTERVAL ]

\* io.on('connection'): the ping, the cached values, the two initial
\* updates up to their awaits, the two intervals.
CachedConnection(v) ==
    /\ status[v] = "new"
    /\ status' = [status EXCEPT ![v] = "connected"]
    /\ LET started == SystemInfoUpdateStarts(v) \o ProcessListUpdateStarts(v)
       IN /\ Admit(Len(started), FALSE)
          /\ tasks' = Started(tasks, started)
    /\ intervals' = [intervals EXCEPT ![v] = BothIntervals]
    /\ out' = Out(v, 0,
                  <<PingEvent>>
                  \o (IF systemInfoCache = Null THEN << >>
                      ELSE <<SystemInfoEvent(systemInfoCache)>>)
                  \o (IF Len(processListCache) = 0 THEN << >>
                      ELSE <<ProcessListEvent(processListCache)>>)
                  \o SystemInfoUpdateEmits \o ProcessListUpdateEmits)
    /\ settled' = NoneSettled
    /\ UNCHANGED <<platform, sample, now, alive, processListCache, systemInfoCache,
                   lastProcessListUpdate, lastSystemInfoUpdate, timer, cl>>

\* socket.on('disconnect'): clearInterval of both.
CachedDisconnect(v) ==
    /\ status[v] = "connected"
    /\ status' = [status EXCEPT ![v] = "closed"]
    /\ intervals' = [intervals EXCEPT ![v] = NoIntervals]
    /\ out' = NoOut
    /\ settled' = NoneSettled
    /\ UNCHANGED <<platform, sample, now, alive, processListCache, systemInfoCache,
                   lastProcessListUpdate, lastSystemInfoUpdate, timer, tasks,
                   requests, cl>>

\* A callback of setInterval(updateSystemInfo, SYSTEM_UPDATE_INTERVAL).
SystemInfoIntervalFires(v) ==
    /\ intervals[v].systemInfoInterval # 0
    /\ now >= intervals[v].systemInfoInterval
    /\ intervals' = [intervals EXCEPT
                       ![v].systemInfoInterval = now + SYSTEM_UPDATE_INTERVAL]
    /\ Admit(Len(SystemInfoUpdateStarts(v)), FALSE)
    /\ tasks' = Started(tasks, SystemInfoUpdateStarts(v))
    /\ out' = [v |-> v, slot |-> 0, events |-> SystemInfoUpdateEmits, kind |-> "interval"]
    /\ settled' = NoneSettled
    /\ UNCHANGED <<platform, sample, now, alive, processListCache, systemInfoCache,
                   lastProcessListUpdate, lastSystemInfoUpdate, status, timer, cl>>

\* A callback of setInterval(updateProcessList, PROCESS_UPDATE_INTERVAL).
ProcessListIntervalFires(v) ==
    /\ intervals[v].processListInterval # 0
    /\ now >= intervals[v].processListInterval
    /\ intervals' = [intervals EXCEPT
                       ![v].processListInterval = now + PROCESS_UPDATE_INTERVAL]
    /\ Admit(Len(ProcessListUpdateStarts(v)), FALSE)
    /\ tasks' = Started(tasks, ProcessListUpdateStarts(v))
    /\ out' = [v |-> v, slot |-> 0, events |-> ProcessListUpdateEmits, kind |-> "interval"]
    /\ settled' = NoneSettled
    /\ UNCHANGED <<platform, sample, now, alive, processListCache, systemInfoCache,
                   lastProcessListUpdate, lastSystemInfoUpdate, status, timer, cl>>

\* The Promise.all of getSystemInfo settles: updateSystemInfo stores and
\* emits the object, or emits the error.
GetSystemInfoSettles(s) ==
    /\ tasks[s].pc = "systemInfo"
    /\ \/ /\ systemInfoCache' = IndexSystemInfo(sample.mem, sample.load)
          /\ lastSystemInfoUpdate' = tasks[s].now0
          /\ out' = Out(tasks[s].v, s,
                        <<SystemInfoEvent(IndexSystemInfo(sample.mem, sample.load))>>)
          /\ settled' = Settled(s, "systemInfo", "ok", "")
       \/ /\ UNCHANGED <<systemInfoCache, lastSystemInfoUpdate>>
          /\ out' = Out(tasks[s].v, s,
                        <<ErrorEvent("Failed to update system information")>>)
          /\ settled' = Settled(s, "systemInfo", "throw", "")
    /\ tasks' = [tasks EXCEPT ![s] = Idle]
    /\ UNCHANGED <<platform, sample, intervals, now, alive, processListCache,
                   lastProcessListUpdate, status, timer, requests, cl>>

\* updateProcessList from the return of getProcessList with `list` to its
\* end.
ProcessListUpdated(s, list) ==
    /\ processListCache' = list
    /\ lastProcessListUpdate' = tasks[s].now0
    /\ out' = Out(tasks[s].v, s, <<ProcessListEvent(list)>>)
    /\ tasks' = [tasks EXCEPT ![s] = Idle]

\* si.processes() settles in getProcessList: a list, an empty list, or an
\* error that sends getProcessList on to the shell command.
IndexProcessesSettles(s) ==
    /\ tasks[s].pc = "processes"
    /\ \/ /\ \E table \in SampledTables(s) \cup {{}} :
                ProcessListUpdated(s, IndexProcessList(RawProcesses(table), TRUE))
          /\ settled' = Settled(s, "processes", "ok", "")
       \/ /\ tasks' = [tasks EXCEPT ![s].pc = "shell", ![s].seen = {}]
          /\ out' = NoOut
          /\ settled' = Settled(s, "processes", "throw", "")
          /\ UNCHANGED <<processListCache, lastProcessListUpdate>>
    /\ UNCHANGED <<platform, sample, intervals, now, alive, systemInfoCache,
                   lastSystemInfoUpdate, status, timer, requests, cl>>

\* execPromise of the fallback command settles: its output is parsed, or its
\* error reaches the catch of updateProcessList, which emits the error and
\* an empty list.
ShellSettles(s) ==
    /\ tasks[s].pc = "shell"
    /\ \/ /\ \E list \in ShellLists(platform, alive) :
                ProcessListUpdated(s, IndexProcessList(list, FALSE))
          /\ settled' = Settled(s, "shell", "ok", "")
       \/ /\ UNCHANGED <<processListCache, lastProcessListUpdate>>
          /\ out' = Out(tasks[s].v, s,
                        <<ErrorEvent("Failed to update process list"),
                          ProcessListEvent(<< >>)>>)
          /\ tasks' = [tasks EXCEPT ![s] = Idle]
          /\ settled' = Settled(s, "shell", "throw", "")
    /\ UNCHANGED <<platform, sample, intervals, now, alive, systemInfoCache,
                   lastSystemInfoUpdate, status, timer, requests, cl>>

MaxUpdateTicks == 2    \* clock steps in one run of this version

CachedClock == ClockAdvances(MaxUpdateTicks)

CachedNext ==
    \/ CachedClock
    \/ \E v \in Viewers : CachedConnection(v)
    \/ \E v \in Viewers : CachedDisconnect(v)
    \/ \E v \in Viewers : SystemInfoIntervalFires(v)
    \/ \E v \in Viewers : ProcessListIntervalFires(v)
    \/ \E s \in Slots : GetSystemInfoSettles(s)
    \/ \E s \in Slots : IndexProcessesSettles(s)
    \/ \E s \in Slots : ShellSettles(s)

CachedSpec == Init /\ [][CachedNext]_vars


\* The callback of processListInterval of socket v runs in this step.
ProcessListTick(v) ==
    /\ intervals[v].processListInterval # 0
    /\ intervals'[v].processListInterval > intervals[v].processListInterval

\* The callback of systemInfoInterval of socket v runs in this step.
SystemInfoTick(v) ==
    /\ intervals[v].systemInfoInterval # 0
    /\ intervals'[v].systemInfoInterval > intervals[v].systemInfoInterval

\* C31: an interval tick that finds the age of a kind's cache below the
\* interval of that kind makes no collector call for it and leaves its cache
\* and its timestamp unchanged.
FreshCacheNotRefetched ==
    [][ \A v \in Viewers :
           /\ (ProcessListTick(v) /\ now - lastProcessListUpdate < PROCESS_UPDATE_INTERVAL)
                 => /\ \A s \in Slots : tasks'[s].pc = "processes" => tasks[s].pc = "processes"
                    /\ processListCache' = processListCache
                    /\ lastProcessListUpdate' = lastProcessListUpdate
           /\ (SystemInfoTick(v) /\ now - lastSystemInfoUpdate < SYSTEM_UPDATE_INTERVAL)
                 => /\ \A s \in Slots : tasks'[s].pc = "systemInfo" => tasks[s].pc = "systemInfo"
                    /\ systemInfoCache' = systemInfoCache
                    /\ lastSystemInfoUpdate' = lastSystemInfoUpdate ]_vars

-----------------------------------------------------------------------------
(* C32: a process-list call that does not return.  getProcessList() awaits  *)
(* tasklist and si.processes() without a timeout; a callback of             *)
(* updateInterval whose call never returns stays at that await for good,    *)
(* and all that is left of it is the next tick of its timer.                *)

\* The callback of updateInterval, its getProcessList() call never returning.
IntervalCallbackStalls(v) ==
    /\ timer[v] # 0
    /\ now >= timer[v]
    /\ GateOpen(now, lastProcessListUpdate, PROCESS_LIST_INTERVAL)
    /\ timer' = [timer EXCEPT ![v] = now + TimerPeriod]
    /\ out' = NoOut
    /\ settled' = NoneSettled
    /\ UNCHANGED <<platform, sample, intervals, now, alive, processListCache,
                   systemInfoCache, lastProcessListUpdate, lastSystemInfoUpdate,
                   status, tasks, requests, cl>>

StallNext ==
    \/ CadenceNext
    \/ \E v \in Viewers : IntervalCallbackStalls(v)

\* Time passes and due timers fire.
StallTick == CadenceTick \/ \E v \in Viewers : IntervalCallbackStalls(v)

\* Timers tick, system-info calls settle, and so do the process-list calls
\* other than those that never return.
StallSpec ==
    /\ Init
    /\ [][StallNext]_vars
    /\ WF_vars(StallTick)
    /\ WF_vars(SystemInfoSettles)
    /\ ProcessListCallsSettle

\* C32: while a viewer stays connected, systemInfo events keep being sent,
\* also when process-list calls are slow or never return.
SystemInfoKeepsFlowing ==
    \A v \in Viewers :
        (status[v] = "connected") ~>
            (status[v] = "closed" \/ EventsNamed(out.events, "systemInfo") # {})

-----------------------------------------------------------------------------
(* Properties of the session: the promises of killProcess *)

\* C33: the promise of a killProcess(pid) call is resolved with the outcome
\* of that request: never with a response that belongs to another pid.
PromiseResolvedWithOwnResponse ==
    \A k \in Kills :
        cl.kills[k].promise.resolved =>
            cl.kills[k].promise.response.pid = cl.kills[k].pid


\* The kill status of the only request made so far, when it was made on a
\* connected socket, and the values it may take next.
Terminal(pid) ==
    {ResponseStatus(r) : r \in ServerResponses(pid)}

StatusSuccessors(pid, st) ==
    IF st = KillStatus(pid, <<"Request sent...">>)
    THEN {KillStatus(pid, <<"Processing...">>)}
    ELSE IF st = KillStatus(pid, <<"Processing...">>) THEN Terminal(pid)
    ELSE IF st \in Terminal(pid) THEN {NoStatus}
    ELSE {}

SingleRequestStep ==
    /\ cl'.calls = 1
    /\ cl'.kills[1].server # "none"

StatusInOrder ==
    IF cl.calls = 0
    THEN cl'.killStatus = KillStatus(cl'.kills[1].pid, <<"Request sent...">>)
    ELSE \/ cl'.killStatus = cl.killStatus
         \/ cl'.killStatus \in StatusSuccessors(cl.kills[1].pid, cl.killStatus)

\* C34 as stated: for a single kill request made on a connected client,
\* killStatus takes the values 'Request sent...', 'Processing...', one
\* terminal value and null in that order, with no other value in between.
KillStatusPhases ==
    [][ SingleRequestStep => StatusInOrder ]_vars

\* C34: for a single kill request made on a connected client whose timeout
\* has not fired, killStatus takes the values 'Request sent...',
\* 'Processing...', one terminal value and null in that order, with no other
\* value in between.
KillStatusPhasesBeforeTimeout ==
    [][ ( /\ SingleRequestStep
          /\ cl'.kills[1].promise # Resolved(TimedOutResult(cl'.kills[1].pid)) )
        => StatusInOrder ]_vars

\* C34 witness: the status of the only request has gone through its phases:
\* the response resolved the promise and the status is null again.
SingleKillStatusCleared ==
    /\ cl.calls = 1
    /\ cl.kills[1].promise.resolved
    /\ cl.kills[1].promise.response \in ServerResponses(cl.kills[1].pid)
    /\ cl.killStatus = NoStatus
    /\ cl.clears = {}

-----------------------------------------------------------------------------
(* Properties of the server: the timers of a session *)

\* The timers of viewer v that are set: updateInterval of server.js,
\* systemInfoInterval and processListInterval of index.ts.
LiveTimers(v) ==
    (IF timer[v] # 0 THEN {"updateInterval"} ELSE {})
    \cup (IF intervals[v].systemInfoInterval # 0 THEN {"systemInfoInterval"} ELSE {})
    \cup (IF intervals[v].processListInterval # 0 THEN {"processListInterval"} ELSE {})

Connected == {v \in Viewers : status[v] = "connected"}

\* C35: the sessions with live update timers are exactly the connected
\* viewers, as many of the one as of the other; a session has all of its
\* timers or none.
TimersOfConnectedViewersOnly ==
    /\ \A v \in Viewers :
           /\ LiveTimers(v) # {} <=> v \in Connected
           /\ LiveTimers(v) \in {{}, {"updateInterval"},
                                 {"systemInfoInterval", "processListInterval"}}
    /\ Cardinality({v \in Viewers : LiveTimers(v) # {}}) = Cardinality(Connected)

\* C35 witness: one viewer has connected and left, its timer cancelled, while
\* another is connected with its timer set and fired at least once.
TimerCancelledForOneKeptForOther ==
    \E u, v \in Viewers :
        /\ status[u] = "closed" /\ LiveTimers(u) = {}
        /\ status[v] = "connected" /\ timer[v] > StartNow + TimerPeriod

-----------------------------------------------------------------------------
(* Properties of the session: the process list *)

\* C36: the data timeout never replaces a list that a processList event has
\* put in place; it sets the placeholder only while the list is still empty.
DataTimeoutKeepsReceivedList ==
    [][ ( /\ cl.dataTimeout # 0
          /\ cl'.dataTimeout = 0
          /\ cl.processList # InitialProcessList )
        => cl'.processList = cl.processList ]_vars

-----------------------------------------------------------------------------
(* The SystemInfo component of client/src/components/SystemInfo.tsx: the    *)
(* effect that runs for each systemInfo prop, and the render that follows.  *)
(* Loads and percentages are in tenths of a percent.                        *)

SystemInfoRendered(info) ==
    /\ ServerUnchanged
    /\ cl.samples < MaxSamples
    /\ cl' = [cl EXCEPT
            !.systemInfo = info,
            !.samples = @ + 1,
            !.cpuHistory = PushHistory(@, Sanitize(ParseFloat(info.load))),
            !.memoryHistory = PushHistory(@, Sanitize(ParseFloat(info.usedPercent))),
            !.coreWidths = [i \in 1 .. Len(info.cores) |->
                              Sanitize(ParseFloat(info.cores[i]))]]

ChartNext == \E info \in SystemInfoProps : SystemInfoRendered(info)

ChartSpec == ClientInit /\ [][ChartNext]_vars

\* history' is history without its first entry, followed by one new entry.
Shifted(history, next) ==
    /\ Len(next) = HistoryLength
    /\ \A i \in 1 .. HistoryLength - 1 : next[i] = history[i + 1]

\* C37: both histories always have exactly 30 entries, and each systemInfo
\* given to the component removes the first entry and appends the entry of
\* that systemInfo at the end, so the entries are in order of arrival.
HistoriesKeepLengthAndOrder ==
    /\ Len(cl.cpuHistory) = HistoryLength
    /\ Len(cl.memoryHistory) = HistoryLength
    /\ [][ cl'.samples = cl.samples + 1
           => /\ Shifted(cl.cpuHistory, cl'.cpuHistory)
              /\ Shifted(cl.memoryHistory, cl'.memoryHistory)
              /\ cl'.cpuHistory[HistoryLength]
                     = Sanitize(ParseFloat(cl'.systemInfo.load))
              /\ cl'.memoryHistory[HistoryLength]
                     = Sanitize(ParseFloat(cl'.systemInfo.usedPercent)) ]_vars

\* C37 witness: three different samples have arrived and are the last three
\* entries, oldest first, after 27 of the initial entries.
ThreeSamplesInOrder ==
    /\ cl.samples = 3
    /\ SubSeq(cl.cpuHistory, HistoryLength - 2, HistoryLength) = <<455, 1000, 0>>
    /\ SubSeq(cl.memoryHistory, HistoryLength - 2, HistoryLength) = <<1000, 0, 455>>
    /\ \A i \in 1 .. HistoryLength - 3 : cl.cpuHistory[i] = 0

InPercentTenths(x) == x # NaN /\ 0 <= x /\ x <= 1000

\* C38: every value in the CPU and memory histories and every progress
\* width of a core is a number in [0,100], whatever the load strings were.
ChartValuesInRange ==
    /\ \A i \in 1 .. Len(cl.cpuHistory) : InPercentTenths(cl.cpuHistory[i])
    /\ \A i \in 1 .. Len(cl.memoryHistory) : InPercentTenths(cl.memoryHistory[i])
    /\ \A i \in 1 .. Len(cl.coreWidths) : InPercentTenths(cl.coreWidths[i])

====
